---- MODULE Spec2Model ----
(***************************************************************************)
(* Model of scripts/inference_service.py: the launcher that classifies a   *)
(* model reference, validates it, resolves the embodiment configuration    *)
(* from experiment_cfg/metadata.json and builds the modality configuration *)
(* generator.                                                              *)
(*                                                                         *)
(* Python strings are sequences of one-character strings, so that          *)
(* `in`, startswith and f-string formatting are computed, not assumed.     *)
(***************************************************************************)
EXTENDS Integers, Sequences, FiniteSets, TLC

\* ------------------------------------------------------------------ bounds

\* longest --model_path string drawn
MaxPathLen == 3
\* most keys in modalities.video / modalities.action of a drawn document
MaxKeys == 2

\* ------------------------------------------------------- program constants

\* argparse defaults of --num_arms and --num_cams
DefaultNumArms == 1
DefaultNumCams == 2

\* ----------------------------------------------------------------- strings

Slash == "/"
PathChars == {"/", ".", "a"}

\* every string over PathChars of length <= MaxPathLen
Paths == UNION {[1..n -> PathChars] : n \in 0..MaxPathLen}

\* str.startswith(prefix)
StartsWith(s, prefix) ==
    /\ Len(s) >= Len(prefix)
    /\ SubSeq(s, 1, Len(prefix)) = prefix

\* `c in s` for a one-character c
Contains(s, c) == \E i \in 1..Len(s) : s[i] = c

DotSlash == <<".", "/">>
RootSlash == <<"/">>
VideoPrefix == <<"v", "i", "d", "e", "o", ".">>
ArmPrefix == <<"a", "r", "m">>
StateArmPrefix == <<"s", "t", "a", "t", "e", ".", "a", "r", "m", "_">>
ActionArmPrefix == <<"a", "c", "t", "i", "o", "n", ".", "a", "r", "m", "_">>

Digits == <<"0", "1", "2", "3", "4", "5", "6", "7", "8", "9">>

\* str(i) of a non-negative int, as the f-string {i} formats it
RECURSIVE IntToStr(_)
IntToStr(n) ==
    IF n < 10 THEN <<Digits[n + 1]>>
    ELSE IntToStr(n \div 10) \o <<Digits[(n % 10) + 1]>>

\* channel names that metadata documents are drawn from
Front == <<"f", "r", "o", "n", "t">>
Wrist == <<"w", "r", "i", "s", "t">>
Video == <<"v", "i", "d", "e", "o">>
VideoFront == VideoPrefix \o Front
Arm0 == <<"a", "r", "m", "_", "0">>
Arm1 == <<"a", "r", "m", "_", "1">>
Gripper == <<"g", "r", "i", "p", "p", "e", "r">>
LeftArm == <<"l", "e", "f", "t", "_", "a", "r", "m">>

VideoNames == {Front, Wrist, Video, VideoFront}
ActionNames == {Arm0, Arm1, Gripper, LeftArm}

\* key lists of a parsed JSON object: distinct names, in document order
KeyLists(names) ==
    {ks \in UNION {[1..n -> names] : n \in 0..MaxKeys} :
        \A i, j \in 1..Len(ks) : i # j => ks[i] # ks[j]}

\* ------------------------------------------------- metadata.json contents

\* A JSON member is "absent" (the key is not in its parent object), "other"
\* (present, but an array, string, number, boolean or null) or an "object".
AbsentChannels == [kind |-> "absent", keys |-> <<>>]
OtherChannels == [kind |-> "other", keys |-> <<>>]
\* the {} that dict.get(key, {}) returns for an absent key
EmptyChannels == [kind |-> "object", keys |-> <<>>]
EmptyModalities == [kind |-> "object", video |-> AbsentChannels, action |-> AbsentChannels]

Channels(names) ==
    {AbsentChannels, OtherChannels}
        \cup {[kind |-> "object", keys |-> ks] : ks \in KeyLists(names)}

Modalities ==
    {[kind |-> k, video |-> AbsentChannels, action |-> AbsentChannels] : k \in {"absent", "other"}}
        \cup {[kind |-> "object", video |-> v, action |-> a] :
                v \in Channels(VideoNames), a \in Channels(ActionNames)}

NoModalities == [kind |-> "absent", video |-> AbsentChannels, action |-> AbsentChannels]

\* what json.loads returns: a non-object JSON value or an object
Documents ==
    {[kind |-> "other", modalities |-> NoModalities]}
        \cup {[kind |-> "object", modalities |-> m] : m \in Modalities}

NoDocument == [kind |-> "other", modalities |-> NoModalities]
NotRead == [read |-> "not_read", doc |-> NoDocument]

\* outcomes of metadata_path.read_text() followed by json.loads: the file is
\* missing, unreadable, not JSON, or parses to a document
MetadataFiles ==
    {[read |-> r, doc |-> NoDocument] : r \in {"missing", "io_error", "malformed"}}
        \cup {[read |-> "ok", doc |-> d] : d \in Documents}

\* ------------------------------------------------------ python evaluation

Raise == [raised |-> TRUE, value |-> <<>>]
Return(v) == [raised |-> FALSE, value |-> v]

\* metadata['modalities'][which].keys(): an absent key raises KeyError
ChannelKeys_subscript(metadata, which) ==
    IF metadata.kind # "object" \/ metadata.modalities.kind # "object" THEN Raise
    ELSE IF metadata.modalities[which].kind # "object" THEN Raise
    ELSE Return(metadata.modalities[which].keys)

\* list(metadata.get('modalities', {}).get(which, {}).keys()): .get needs a
\* dict (AttributeError otherwise), and so does .keys()
ChannelKeys(metadata, which) ==
    IF metadata.kind # "object" THEN Raise
    ELSE LET m == IF metadata.modalities.kind = "absent"
                  THEN EmptyModalities ELSE metadata.modalities
         IN IF m.kind # "object" THEN Raise
            ELSE LET c == IF m[which].kind = "absent" THEN EmptyChannels ELSE m[which]
                 IN IF c.kind # "object" THEN Raise ELSE Return(c.keys)

\* the count without its `or 1`
CountArms_no_default(action_keys) ==
    Cardinality({i \in 1..Len(action_keys) : StartsWith(action_keys[i], ArmPrefix)})

\* len([k for k in action_keys if k.startswith('arm')]) or 1
CountArms(action_keys) ==
    LET n == Cardinality({i \in 1..Len(action_keys) : StartsWith(action_keys[i], ArmPrefix)})
    IN IF n = 0 THEN 1 ELSE n

\* is_huggingface_repo without its os.path.exists test
is_huggingface_repo_no_exists(path, exists) ==
    /\ Contains(path, Slash)
    /\ ~StartsWith(path, DotSlash)
    /\ ~StartsWith(path, RootSlash)

\* is_huggingface_repo(path); exists is os.path.exists(path)
is_huggingface_repo(path, exists) ==
    /\ Contains(path, Slash)
    /\ ~StartsWith(path, DotSlash)
    /\ ~StartsWith(path, RootSlash)
    /\ ~exists

\* the except branch returning the argparse default, not its parameter
Fallback_constant(default_num_cams) ==
    [num_arms |-> 1, num_cams |-> DefaultNumCams, video_keys |-> <<>>]

\* the except branch of detect_model_config
Fallback(default_num_cams) ==
    [num_arms |-> 1, num_cams |-> default_num_cams, video_keys |-> <<>>]

\* the values computed from a parsed document inside the try block
FromMetadata(metadata) ==
    LET video == ChannelKeys(metadata, "video")
        action == ChannelKeys(metadata, "action")
    IN IF video.raised \/ action.raised THEN Raise
       ELSE Return([num_arms |-> CountArms(action.value),
                    num_cams |-> Len(video.value),
                    video_keys |-> video.value])

\* detect_model_config(model_path, default_num_cams); exists, snap and file
\* are what os.path.exists, snapshot_download and the metadata read give
detect_model_config(model_path, default_num_cams, exists, snap, file) ==
    IF is_huggingface_repo(model_path, exists) /\ snap = "error"
    THEN Fallback(default_num_cams)
    ELSE IF file.read # "ok" THEN Fallback(default_num_cams)
    ELSE LET r == FromMetadata(file.doc)
         IN IF r.raised THEN Fallback(default_num_cams) ELSE r.value

\* validate_huggingface_repo that never reports non-existence
validate_huggingface_repo_always(answer) == TRUE

\* validate_huggingface_repo whose except branch returns False
validate_huggingface_repo_strict(answer) == answer = "true"

\* validate_huggingface_repo(repo_id); answer is what repo_exists does
validate_huggingface_repo(answer) ==
    IF answer = "error" THEN TRUE ELSE answer = "true"

\* the prefix added to every key, prefixed or not
PrefixVideoKeys_always(video_keys) ==
    [i \in 1..Len(video_keys) |-> VideoPrefix \o video_keys[i]]

\* [f"video.{k}" if not k.startswith('video.') else k for k in video_keys]
PrefixVideoKeys(video_keys) ==
    [i \in 1..Len(video_keys) |->
        IF ~StartsWith(video_keys[i], VideoPrefix)
        THEN VideoPrefix \o video_keys[i] ELSE video_keys[i]]

\* state keys numbered from 1
StateKeys_from_one(num_arms) == [i \in 1..num_arms |-> StateArmPrefix \o IntToStr(i)]

\* [f"state.arm_{i}" for i in range(num_arms)]
StateKeys(num_arms) == [i \in 1..num_arms |-> StateArmPrefix \o IntToStr(i - 1)]

\* [f"action.arm_{i}" for i in range(num_arms)]
ActionKeys(num_arms) == [i \in 1..num_arms |-> ActionArmPrefix \o IntToStr(i - 1)]

\* ConfigGeneratorFromNames(...) if video_keys else ConfigGenerator(...)
BuildDataGen(num_arms, num_cams, video_keys) ==
    IF video_keys # <<>>
    THEN [scheme |-> "Named",
          video_keys |-> PrefixVideoKeys(video_keys),
          state_keys |-> StateKeys(num_arms),
          action_keys |-> ActionKeys(num_arms)]
    ELSE [scheme |-> "Indexed", num_arms |-> num_arms, num_cams |-> num_cams]

\* ------------------------------------------------------------------ state

VARIABLES
    argv,           \* the command line: --model_path, --num_arms, --num_cams
    fs_exists,      \* os.path.exists(model_path)
    args,           \* the parsed arguments, which main overwrites
    pc,             \* where main is
    source,         \* how line 118 classified model_path
    repo_answer,    \* what repo_exists did
    error,          \* the exception main raised
    snapshot,       \* what snapshot_download did
    metadata_file,  \* what reading and parsing metadata.json gave
    config,         \* <<>> or the (num_arms, num_cams, video_keys) detected
    data_gen        \* <<>> or the generator built

vars == <<argv, fs_exists, args, pc, source, repo_answer, error, snapshot,
          metadata_file, config, data_gen>>

HintedNumArms == {DefaultNumArms, 2}
HintedNumCams == {0, DefaultNumCams, 3}

\* model references of each shape: "a/a", "./a", "/a", "a" and ""
ModelPaths ==
    {<<"a", "/", "a">>, <<".", "/", "a">>, <<"/", "a">>, <<"a">>, <<>>}

\* the state main starts from, for a command line and a filesystem; the empty
\* string names no file
Start(cli, exists) ==
    /\ argv = cli
    /\ fs_exists = exists
    /\ (cli.model_path = <<>> => ~exists)
    /\ args = cli
    /\ pc = "validate"
    /\ source = "unset"
    /\ repo_answer = "not_called"
    /\ error = "none"
    /\ snapshot = "not_called"
    /\ metadata_file = NotRead
    /\ config = <<>>
    /\ data_gen = <<>>

\* every hint pair, a model reference of each shape
Init ==
    \E cli \in [model_path : ModelPaths, num_arms : HintedNumArms, num_cams : HintedNumCams] :
        \E exists \in BOOLEAN : Start(cli, exists)

\* every model reference up to MaxPathLen, the default hints
InitPaths ==
    \E cli \in [model_path : Paths, num_arms : {DefaultNumArms}, num_cams : {DefaultNumCams}] :
        \E exists \in BOOLEAN : Start(cli, exists)

\* main, lines 118-123
ValidateModelPath ==
    /\ pc = "validate"
    /\ LET hf == is_huggingface_repo(args.model_path, fs_exists)
       IN /\ source' = IF hf THEN "RemoteRepoId" ELSE "LocalPath"
          /\ \E answer \in IF hf THEN {"true", "false", "error"} ELSE {"not_called"} :
                /\ repo_answer' = answer
                /\ IF hf
                   THEN IF ~validate_huggingface_repo(answer)
                        THEN pc' = "raised" /\ error' = "hf_not_found"
                        ELSE pc' = "detect" /\ error' = "none"
                   ELSE IF ~fs_exists
                        THEN pc' = "raised" /\ error' = "local_not_found"
                        ELSE pc' = "detect" /\ error' = "none"
    /\ UNCHANGED <<argv, fs_exists, args, snapshot, metadata_file, config, data_gen>>

\* main, lines 126-130
AutoDetect ==
    /\ pc = "detect"
    /\ LET hf == is_huggingface_repo(args.model_path, fs_exists)
       IN \E snap \in IF hf THEN {"ok", "error"} ELSE {"not_called"} :
          \E file \in IF snap = "error" THEN {NotRead} ELSE MetadataFiles :
             LET c == detect_model_config(args.model_path, args.num_cams,
                                          fs_exists, snap, file)
             IN /\ snapshot' = snap
                /\ metadata_file' = file
                /\ config' = <<c>>
                /\ args' = [args EXCEPT !.num_arms = c.num_arms, !.num_cams = c.num_cams]
    /\ pc' = "build"
    /\ UNCHANGED <<argv, fs_exists, source, repo_answer, error, data_gen>>

\* main, lines 133-142
CreateDataConfig ==
    /\ pc = "build"
    /\ data_gen' = <<BuildDataGen(args.num_arms, args.num_cams, config[1].video_keys)>>
    /\ pc' = "done"
    /\ UNCHANGED <<argv, fs_exists, args, source, repo_answer, error, snapshot,
                   metadata_file, config>>

Next == ValidateModelPath \/ AutoDetect \/ CreateDataConfig

Spec == Init /\ [][Next]_vars

SpecPaths == InitPaths /\ [][Next]_vars

\* ----------------------------------------------------------- the claims

Produced == config # <<>>
Built == data_gen # <<>>
Doc == metadata_file.doc

\* the reference holds a separator, read off the characters
HasSeparator(p) == \E i \in DOMAIN p : p[i] = "/"
\* the reference starts with "./" or with "/"
HasPathMarker(p) ==
    \/ (Len(p) >= 1 /\ p[1] = "/")
    \/ (Len(p) >= 2 /\ p[1] = "." /\ p[2] = "/")
\* namespace/name: one separator between two non-empty names, the namespace
\* not the relative marker "."
IsNamespaceName(p) ==
    \E k \in 2..(Len(p) - 1) :
        /\ p[k] = "/"
        /\ \A i \in DOMAIN p : i # k => p[i] # "/"
        /\ SubSeq(p, 1, k - 1) # <<".">>

\* C1: classification is total and follows the ordered rule: a reference is
\* RemoteRepoId exactly when it holds a '/', does not start with './' or '/',
\* and does not exist locally, and is LocalPath otherwise; a reference that
\* exists locally is LocalPath, a non-existent namespace/name is RemoteRepoId.
C1_ClassificationRule ==
    pc # "validate" =>
        /\ source \in {"RemoteRepoId", "LocalPath"}
        /\ (source = "RemoteRepoId") <=>
              (/\ HasSeparator(argv.model_path)
               /\ ~HasPathMarker(argv.model_path)
               /\ ~fs_exists)
        /\ (fs_exists => source = "LocalPath")
        /\ (~fs_exists /\ IsNamespaceName(argv.model_path) => source = "RemoteRepoId")

C1_Witness ==
    /\ pc # "validate"
    /\ argv.model_path = <<"a", "/", "a">>
    /\ fs_exists
    /\ source = "LocalPath"

\* C2: a RemoteRepoId reference that repo_exists reports non-existent, or a
\* LocalPath reference that does not exist, makes main raise its not-found
\* error before detect_model_config runs: nothing is downloaded or read, and no
\* configuration and no generator is produced.
C2_NotFoundFirst ==
    (/\ pc # "validate"
     /\ \/ (source = "RemoteRepoId" /\ repo_answer = "false")
        \/ (source = "LocalPath" /\ ~fs_exists))
    => /\ pc = "raised"
       /\ error = IF source = "RemoteRepoId" THEN "hf_not_found" ELSE "local_not_found"
       /\ snapshot = "not_called"
       /\ metadata_file = NotRead
       /\ ~Produced
       /\ ~Built

C2_Witness ==
    /\ pc = "raised"
    /\ source = "RemoteRepoId"
    /\ repo_answer = "false"
    /\ error = "hf_not_found"

\* C3: for a RemoteRepoId reference, a failed snapshot_download always
\* surfaces as a fatal error, and the default configuration is never returned.
C3_DownloadFailureIsFatal ==
    (source = "RemoteRepoId" /\ snapshot = "error")
    => (error # "none" /\ ~Produced)

\* C4: when the reference passed validation and metadata.json is absent, the
\* configuration is (1, hinted num_cams, []) for every hint pair, the generator
\* built is Indexed with those two values, and nothing is raised.
C4_AbsentMetadataFallback ==
    metadata_file.read = "missing" =>
        /\ error = "none"
        /\ pc \in {"build", "done"}
        /\ config = <<[num_arms |-> 1, num_cams |-> argv.num_cams, video_keys |-> <<>>]>>
        /\ (pc = "build" => ENABLED CreateDataConfig)
        /\ (pc = "done" =>
              data_gen = <<[scheme |-> "Indexed", num_arms |-> 1, num_cams |-> argv.num_cams]>>)

C4_Witness ==
    /\ pc = "done"
    /\ metadata_file.read = "missing"
    /\ argv.num_arms = 2
    /\ argv.num_cams = 3
    /\ data_gen = <<[scheme |-> "Indexed", num_arms |-> 1, num_cams |-> 3]>>

\* the file could not be read or parsed
ReadFailed == metadata_file.read \in {"missing", "io_error", "malformed"}
\* a parsed object lacking modalities, modalities.video or modalities.action
MissingFields ==
    /\ metadata_file.read = "ok"
    /\ Doc.kind = "object"
    /\ \/ Doc.modalities.kind = "absent"
       \/ /\ Doc.modalities.kind = "object"
          /\ \/ Doc.modalities.video.kind = "absent"
             \/ Doc.modalities.action.kind = "absent"

\* C5 as stated: every metadata failure, a parsed document with missing
\* fields included, gives the fallback (1, caller-supplied default, []).
C5_AllFailuresFallBack ==
    (ReadFailed \/ MissingFields)
    => config = <<[num_arms |-> 1, num_cams |-> argv.num_cams, video_keys |-> <<>>]>>

\* C5 amended: a missing file, malformed JSON and an I/O error give the
\* fallback (1, caller-supplied default, []); a parsed object lacking fields
\* is read as empty instead: without modalities it gives (1, 0, []), without
\* modalities.video (modalities.action absent or an object) num_cams = 0 and
\* video_keys = [], without modalities.action (modalities.video an object)
\* num_arms = 1 with the video keys of the document.
C5_FailuresAndMissingFields ==
    /\ ReadFailed =>
          config = <<[num_arms |-> 1, num_cams |-> argv.num_cams, video_keys |-> <<>>]>>
    /\ (MissingFields /\ Doc.modalities.kind = "absent") =>
          config = <<[num_arms |-> 1, num_cams |-> 0, video_keys |-> <<>>]>>
    /\ (/\ MissingFields
        /\ Doc.modalities.video.kind = "absent"
        /\ Doc.modalities.action.kind # "other") =>
          (config[1].num_cams = 0 /\ config[1].video_keys = <<>>)
    /\ (/\ MissingFields
        /\ Doc.modalities.action.kind = "absent"
        /\ Doc.modalities.video.kind = "object") =>
          /\ config[1].num_arms = 1
          /\ config[1].video_keys = Doc.modalities.video.keys
          /\ config[1].num_cams = Len(Doc.modalities.video.keys)

C5_Witness ==
    /\ pc = "done"
    /\ MissingFields
    /\ Doc.modalities.kind = "object"
    /\ Doc.modalities.video.kind = "absent"
    /\ Doc.modalities.action.kind = "object"
    /\ argv.num_cams = 2
    /\ config[1].num_cams = 0
    /\ data_gen = <<[scheme |-> "Indexed", num_arms |-> config[1].num_arms, num_cams |-> 0]>>

\* the keys of a member of modalities, none when it is not an object
MemberKeys(which) ==
    IF /\ Doc.kind = "object"
       /\ Doc.modalities.kind = "object"
       /\ Doc.modalities[which].kind = "object"
    THEN Doc.modalities[which].keys ELSE <<>>
\* the action keys that start with the three letters a, r, m
ArmKeys ==
    {i \in DOMAIN MemberKeys("action") :
        LET k == MemberKeys("action")[i]
        IN Len(k) >= 3 /\ k[1] = "a" /\ k[2] = "r" /\ k[3] = "m"}
\* the configuration the metadata alone determines
MetadataConfig ==
    [num_arms |-> IF ArmKeys = {} THEN 1 ELSE Cardinality(ArmKeys),
     num_cams |-> Len(MemberKeys("video")),
     video_keys |-> MemberKeys("video")]
\* the document is an object whose modalities, modalities.video and
\* modalities.action are each absent or an object
WellTyped ==
    /\ Doc.kind = "object"
    /\ Doc.modalities.kind # "other"
    /\ Doc.modalities.video.kind # "other"
    /\ Doc.modalities.action.kind # "other"

\* C6 as stated: whenever the metadata document parses, the configuration is
\* the one the metadata alone determines, whatever the hints.
C6_ParsedMetadataDecides ==
    metadata_file.read = "ok" => config = <<MetadataConfig>>

\* C6 amended: when the metadata document parses to an object whose
\* modalities, modalities.video and modalities.action are each absent or an
\* object, the configuration is the one the metadata alone determines
\* (video_keys the video keys in document order, num_cams their number,
\* num_arms the number of action keys starting with "arm", or 1 if none);
\* every configuration has num_arms >= 1 and num_cams = len(video_keys) when
\* video_keys is non-empty; one that is not the metadata's is
\* (1, hinted num_cams, []), so the hinted num_arms never enters.
C6_WellTypedMetadataDecides ==
    Produced =>
        /\ (metadata_file.read = "ok" /\ WellTyped) => config = <<MetadataConfig>>
        /\ config[1].num_arms >= 1
        /\ (config[1].video_keys # <<>> => config[1].num_cams = Len(config[1].video_keys))
        /\ \/ (metadata_file.read = "ok" /\ config = <<MetadataConfig>>)
           \/ config = <<[num_arms |-> 1, num_cams |-> argv.num_cams, video_keys |-> <<>>]>>
        /\ args.num_arms = config[1].num_arms
        /\ args.num_cams = config[1].num_cams

C6_Witness ==
    /\ pc = "done"
    /\ metadata_file.read = "ok"
    /\ WellTyped
    /\ Doc.modalities.video.keys = <<Front, Wrist>>
    /\ Doc.modalities.action.keys = <<Gripper, Arm1>>
    /\ argv.num_arms = 2
    /\ argv.num_cams = 3
    /\ config = <<[num_arms |-> 1, num_cams |-> 2, video_keys |-> <<Front, Wrist>>]>>

\* "state.arm_" or "action.arm_" followed by one decimal digit
ArmKey(modality, digit) == modality \o <<".", "a", "r", "m", "_">> \o <<digit>>
\* the first six characters of a name are v, i, d, e, o and "."
IsVideoPrefixed(k) ==
    /\ Len(k) >= 6
    /\ <<k[1], k[2], k[3], k[4], k[5], k[6]>> = <<"v", "i", "d", "e", "o", ".">>

\* C7: the generator is Named exactly when the detected video_keys is
\* non-empty and Indexed(num_arms, num_cams) otherwise; a Named generator has
\* state keys state.arm_0..state.arm_(num_arms-1), action keys
\* action.arm_0..action.arm_(num_arms-1), whatever the metadata's action names,
\* and each detected video name prefixed with "video." unless it already is.
C7_SchemeAndKeys ==
    Built =>
        LET c == config[1]
            g == data_gen[1]
            digits == <<"0", "1", "2", "3", "4", "5", "6", "7", "8", "9">>
        IN /\ (g.scheme = "Named") <=> (c.video_keys # <<>>)
           /\ (g.scheme = "Indexed") <=> (c.video_keys = <<>>)
           /\ g.scheme = "Indexed" =>
                 g = [scheme |-> "Indexed", num_arms |-> c.num_arms, num_cams |-> c.num_cams]
           /\ g.scheme = "Named" =>
                 /\ DOMAIN g = {"scheme", "video_keys", "state_keys", "action_keys"}
                 /\ Len(g.state_keys) = c.num_arms
                 /\ Len(g.action_keys) = c.num_arms
                 /\ \A i \in 0..(c.num_arms - 1) :
                       /\ g.state_keys[i + 1] = ArmKey(<<"s", "t", "a", "t", "e">>, digits[i + 1])
                       /\ g.action_keys[i + 1] =
                             ArmKey(<<"a", "c", "t", "i", "o", "n">>, digits[i + 1])
                 /\ Len(g.video_keys) = Len(c.video_keys)
                 /\ \A i \in DOMAIN c.video_keys :
                       g.video_keys[i] =
                          IF IsVideoPrefixed(c.video_keys[i]) THEN c.video_keys[i]
                          ELSE <<"v", "i", "d", "e", "o", ".">> \o c.video_keys[i]

C7_Witness ==
    /\ pc = "done"
    /\ Doc.modalities.video.keys = <<Front, Wrist>>
    /\ Doc.modalities.action.keys = <<Arm0, Arm1>>
    /\ config = <<[num_arms |-> 2, num_cams |-> 2, video_keys |-> <<Front, Wrist>>]>>
    /\ data_gen =
          <<[scheme |-> "Named",
             video_keys |-> <<<<"v", "i", "d", "e", "o", ".", "f", "r", "o", "n", "t">>,
                              <<"v", "i", "d", "e", "o", ".", "w", "r", "i", "s", "t">>>>,
             state_keys |-> <<<<"s", "t", "a", "t", "e", ".", "a", "r", "m", "_", "0">>,
                              <<"s", "t", "a", "t", "e", ".", "a", "r", "m", "_", "1">>>>,
             action_keys |-> <<<<"a", "c", "t", "i", "o", "n", ".", "a", "r", "m", "_", "0">>,
                               <<"a", "c", "t", "i", "o", "n", ".", "a", "r", "m", "_", "1">>>>]>>

\* C8: when the reference is RemoteRepoId and repo_exists itself fails, the
\* repository is taken as valid: nothing is raised and main goes on to detect
\* the configuration and build the generator; a RemoteRepoId launch stops only
\* on a confirmed non-existence answer.
C8_UncertainValidationProceeds ==
    /\ (source = "RemoteRepoId" /\ repo_answer = "error") =>
          /\ error = "none"
          /\ pc \in {"detect", "build", "done"}
          /\ (pc = "detect" => ENABLED AutoDetect)
          /\ (pc = "build" => Produced /\ ENABLED CreateDataConfig)
          /\ (pc = "done" => Produced /\ Built)
    /\ (source = "RemoteRepoId" /\ pc = "raised") => repo_answer = "false"

C8_Witness ==
    /\ source = "RemoteRepoId"
    /\ repo_answer = "error"
    /\ pc = "done"
    /\ metadata_file.read = "ok"
    /\ Built
    /\ data_gen[1].scheme = "Named"

\* C9: video-key prefixing is idempotent: the prefixing step applied to the
\* video keys it produced changes nothing, and a list of unprefixed names
\* gives the same keys whether built from as it is or with "video." already
\* put before each name.
C9_PrefixingIdempotent ==
    (Built /\ data_gen[1].scheme = "Named") =>
        LET given == config[1].video_keys
            out == data_gen[1].video_keys
            already == [i \in DOMAIN given |-> <<"v", "i", "d", "e", "o", ".">> \o given[i]]
        IN /\ PrefixVideoKeys(out) = out
           /\ BuildDataGen(config[1].num_arms, Len(out), out) = data_gen[1]
           /\ (\A i \in DOMAIN given : ~IsVideoPrefixed(given[i])) =>
                 /\ PrefixVideoKeys(already) = out
                 /\ BuildDataGen(config[1].num_arms, Len(already), already) = data_gen[1]

C9_Witness ==
    /\ Built
    /\ config[1].video_keys = <<VideoFront, Wrist>>
    /\ data_gen[1].video_keys = <<VideoFront, VideoPrefix \o Wrist>>

\* C10: a Named generator has one distinct video key per detected video
\* channel: as many keys as num_cams, and no two of them equal.
C10_DistinctVideoKeys ==
    (Built /\ data_gen[1].scheme = "Named") =>
        LET out == data_gen[1].video_keys
        IN /\ Len(out) = config[1].num_cams
           /\ \A i, j \in DOMAIN out : i # j => out[i] # out[j]

====
